---- MODULE Spec2Model ----
(***************************************************************************)
(* Model of the ARRL training driver (src/main.py): command-line          *)
(* configuration, the collect / train / evaluate cycle, the exploration    *)
(* noise life cycle and the per-episode dataset trace.                     *)
(*                                                                         *)
(* Abstractions.  Network weights, rewards and losses are not modelled.    *)
(* The simulator is reduced to its episode clock: an observation is the    *)
(* number of simulator steps since the simulator's last reset, so two      *)
(* observations taken at different points of a simulator episode differ.   *)
(* A mean action returned by select_action is identified by the call that  *)
(* produced it (rollout step number and input state).  The OU process is   *)
(* reduced to the number of samples drawn since its last reset.            *)
(***************************************************************************)
EXTENDS Integers, Sequences, FiniteSets, TLC

\* ---------------------------------------------------------------- bounds
NumRolloutSteps == 2
NumberOfTrainSteps == 3
NumEpochsCycles == 2
NumSteps == 8
MaxBatchSize == 3
ReplaySize == 5
MaxEpisodeSteps == 3
MaxUserRatio == 2
ParamNoiseInterval == 2

\* ------------------------------------------------------ program constants
RatioDefault == 1
PaperRatioPrMdp == 10
PaperRatioOther == 1

None == "None"
NoneObj == [type |-> "None"]

Methods == {"mdp", "pr_mdp", "nr_mdp"}
EnvTypes == {"halfcheetah", "hopper", "walker2d"}

\* ------------------------------------------------------------- helpers
\* argparse action='store_true': the flag sets True, otherwise the default
StoreTrue(default, passed) == IF passed THEN TRUE ELSE default

load_env_name(env_type) ==
    CASE env_type = "halfcheetah" -> "HalfCheetah-v4"
      [] env_type = "hopper"      -> "Hopper-v4"
      [] env_type = "walker2d"    -> "Walker2d-v4"

\* The command line as the user typed it: an option that was not given is an
\* empty sequence (ratio), None (exploration_method) or FALSE (flags).
AllCommandLines ==
    [env_name : EnvTypes,
     method : Methods,
     exploration_method : {None} \cup Methods,
     ratio : {<<>>} \cup {<<r>> : r \in 1..MaxUserRatio},
     flip_ratio : BOOLEAN,
     ou_noise : BOOLEAN,
     param_noise : BOOLEAN,
     batch_size : 1..MaxBatchSize]

\* The command lines explored: every combination of options on the environment
\* that never terminates, and the method and the extreme batch sizes on the
\* environments that can terminate at any step.
CommandLines ==
    {c \in AllCommandLines :
        \/ c.env_name = "halfcheetah"
        \/ /\ c.env_name = "hopper"
           /\ c.exploration_method = None /\ c.ratio = <<>>
           /\ ~c.flip_ratio /\ ~c.ou_noise /\ ~c.param_noise
           /\ c.batch_size \in {1, MaxBatchSize}
        \/ /\ c.env_name = "walker2d"
           /\ c.exploration_method = None /\ c.ratio = <<>>
           /\ ~c.flip_ratio /\ ~c.ou_noise /\ ~c.param_noise
           /\ c.method = "nr_mdp" /\ c.batch_size = 1}

parse_args(c) ==
    [env_name |-> c.env_name,
     method |-> c.method,
     exploration_method |-> c.exploration_method,
     ratio |-> IF c.ratio = <<>> THEN RatioDefault ELSE c.ratio[1],
     flip_ratio |-> StoreTrue(FALSE, c.flip_ratio),
     ou_noise |-> StoreTrue(TRUE, c.ou_noise),
     param_noise |-> StoreTrue(FALSE, c.param_noise),
     batch_size |-> c.batch_size,
     num_epochs_cycles |-> NumEpochsCycles,
     num_rollout_steps |-> NumRolloutSteps,
     num_steps |-> NumSteps,
     param_noise_interval |-> ParamNoiseInterval,
     number_of_train_steps |-> NumberOfTrainSteps,
     replay_size |-> ReplaySize]

VARIABLES
    cli,            \* the command line (input, never changes)
    args,           \* the argparse namespace, mutated by the driver
    pc,             \* position of the driver
    nb_epochs, epoch, cycle, t,
    sim,            \* the one simulator made by gym.make: env and eval_env both wrap it
    state, eval_state,
    done, trunc,    \* flags returned by the latest env.step / eval_env.step
    ounoise, param_noise,
    perturbs,       \* calls of agent.perturb_actor_parameters
    noise_resets,   \* calls of ounoise.reset()
    memory,         \* len(agent.memory)
    total_steps, train_steps, ep,
    hacky_store, hacky_indict,
    ep_steps,       \* rollout steps taken in each episode index
    adversary_update, adv_updates,
    last_select,    \* arguments of the latest select_action call
    results,        \* lengths of the results_dict series
    losses,         \* len(value_losses) = len(policy_losses) = len(adversary_losses)
    cyc,            \* what has happened in the current cycle
    base_dir, exported

vars == <<cli, args, pc, nb_epochs, epoch, cycle, t, sim, state, eval_state,
          done, trunc,
          ounoise, param_noise, perturbs, noise_resets, memory, total_steps,
          train_steps, ep, hacky_store, hacky_indict, ep_steps,
          adversary_update, adv_updates, last_select, results, losses, cyc,
          base_dir, exported>>

CycZero == [rollouts |-> 0, stores |-> 0, updates |-> 0, loss_entries |-> 0,
            evals |-> 0, saves |-> 0, dumps |-> 0]

Init ==
    /\ cli \in CommandLines
    /\ args = parse_args(cli)
    /\ pc = "setup"
    /\ nb_epochs = 0 /\ epoch = 0 /\ cycle = 0 /\ t = 0
    /\ sim = [elapsed |-> 0]
    /\ state = 0 /\ eval_state = 0
    /\ done = FALSE /\ trunc = FALSE
    /\ ounoise = NoneObj /\ param_noise = NoneObj
    /\ perturbs = 0 /\ noise_resets = 0
    /\ memory = 0
    /\ total_steps = 0 /\ train_steps = 0 /\ ep = 0
    /\ hacky_store = <<>> /\ hacky_indict = NoneObj
    /\ ep_steps = <<>>
    /\ adversary_update = FALSE /\ adv_updates = 0
    /\ last_select = NoneObj
    /\ results = [eval_rewards |-> 0, value_losses |-> 0, policy_losses |-> 0,
                  adversary_losses |-> 0, train_rewards |-> 0]
    /\ losses = 0
    /\ cyc = CycZero
    /\ base_dir = <<>>
    /\ exported = FALSE

\* ------------------------------------------------------------ collaborators
Min(a, b) == IF a < b THEN a ELSE b

\* HalfCheetah never terminates; Hopper and Walker2d terminate when unhealthy.
CanTerminate(env_name) == env_name # "HalfCheetah-v4"

\* env.reset() / eval_env.reset(): both wrappers delegate to the one simulator
EnvReset(s) == [s EXCEPT !.elapsed = 0]

\* env.step() / eval_env.step(): the possible results of one simulator step
EnvStepResults(s, env_name) ==
    {[sim |-> [s EXCEPT !.elapsed = s.elapsed + 1],
      obs |-> s.elapsed + 1,
      done |-> d,
      trunc |-> (s.elapsed + 1 >= MaxEpisodeSteps)] :
        d \in (IF CanTerminate(env_name) THEN BOOLEAN ELSE {FALSE})}

\* OrnsteinUhlenbeckActionNoise: reset() and the sample drawn by select_action
OUReset(n) == [n EXCEPT !.x_prev = 0]
OUSample(n) == [n EXCEPT !.x_prev = n.x_prev + 1]

\* agent.select_action(state, action_noise=None, param_noise=None, mdp_type):
\* returns the means computed for `st` and samples the action noise if given.
select_action(step, st, a_noise, p_noise, mdp_type, phase) ==
    [pr_mu |-> [step |-> step, state |-> st],
     adv_mu |-> [step |-> step, state |-> st],
     a_noise |-> IF a_noise # NoneObj THEN OUSample(a_noise) ELSE a_noise,
     call |-> [type |-> "call", phase |-> phase, mdp_type |-> mdp_type,
               action_noise |-> a_noise # NoneObj,
               param_noise |-> p_noise # NoneObj]]

\* agent.store_transition: push on the ring buffer of capacity replay_size
store_transition(len, replay_size) == Min(len + 1, replay_size)

\* variant of reset_noise that only perturbs the actor
reset_noise_PerturbOnly(a_noise, p_noise, n_resets, n_perturbs) ==
    [a_noise |-> a_noise,
     resets |-> n_resets,
     perturbs |-> IF p_noise # NoneObj THEN n_perturbs + 1 ELSE n_perturbs]

\* reset_noise(a, a_noise, p_noise)
reset_noise(a_noise, p_noise, n_resets, n_perturbs) ==
    [a_noise |-> IF a_noise # NoneObj THEN OUReset(a_noise) ELSE a_noise,
     resets |-> IF a_noise # NoneObj THEN n_resets + 1 ELSE n_resets,
     perturbs |-> IF p_noise # NoneObj THEN n_perturbs + 1 ELSE n_perturbs]

\* defaultdict(list): reading a missing key gives the empty list
DictGet(d, k) == IF k \in DOMAIN d THEN d[k] ELSE <<>>
DictAppend(d, k, v) ==
    [x \in (DOMAIN d) \cup {k} |-> IF x = k THEN Append(DictGet(d, k), v) ELSE d[x]]
CountGet(d, k) == IF k \in DOMAIN d THEN d[k] ELSE 0
DictInc(d, k) ==
    [x \in (DOMAIN d) \cup {k} |-> IF x = k THEN CountGet(d, k) + 1 ELSE d[x]]

\* ------------------------------------------------------------------ setup
\* line 92: the ratio the run uses
PaperRatio(a) == IF a.method = "pr_mdp" THEN PaperRatioPrMdp ELSE PaperRatioOther

\* line 184
ModuloPeriod(ratio) == ratio + 1

\* lines 113-141: the run directory below <root>/models/<env_name>/
BaseDir(a) ==
    [noise |-> IF a.param_noise THEN "param_noise"
               ELSE IF a.ou_noise THEN "ou_noise" ELSE "no_noise",
     flip |-> (a.method # "mdp" /\ a.flip_ratio),
     name |-> IF a.exploration_method = a.method
              THEN (IF a.method # "mdp" THEN <<a.method>> ELSE <<"non_robust">>)
              ELSE (IF a.method # "mdp" THEN <<"alternative", a.method>>
                    ELSE <<"alternative_non_robust", a.exploration_method>>),
     ratio |-> IF a.exploration_method = a.method /\ a.method = "mdp"
               THEN <<>> ELSE <<a.ratio>>]

\* lines 147-151
MakeOUNoise(a) == IF a.ou_noise THEN [type |-> "OU", x_prev |-> 0] ELSE NoneObj
MakeParamNoise(a) == IF a.param_noise THEN [type |-> "ParamNoise", adapts |-> 0] ELSE NoneObj

\* lines 163-167 (num_epochs is None, num_steps is set)
NbEpochs(a) == a.num_steps \div (a.num_epochs_cycles * a.num_rollout_steps)

Setup ==
    /\ pc = "setup"
    /\ LET a1 == [args EXCEPT !.exploration_method =
                      IF @ = None THEN args.method ELSE @]
           a2 == [a1 EXCEPT !.ratio = PaperRatio(a1),
                            !.env_name = load_env_name(a1.env_name)]
           ou == MakeOUNoise(a2)
           pn == MakeParamNoise(a2)
           rn == reset_noise(ou, pn, 0, 0)
       IN /\ base_dir' = BaseDir(a2)
          /\ ounoise' = rn.a_noise
          /\ param_noise' = pn
          /\ noise_resets' = rn.resets
          /\ perturbs' = rn.perturbs
          /\ nb_epochs' = NbEpochs(a2)
          /\ args' = [a2 EXCEPT !.ratio = ModuloPeriod(a2.ratio)]
          /\ pc' = IF NbEpochs(a2) > 0 /\ a2.num_epochs_cycles > 0
                   THEN "rollout" ELSE "export"
    /\ sim' = EnvReset(EnvReset(sim))
    /\ state' = 0 /\ eval_state' = 0
    /\ total_steps' = 0 /\ train_steps' = 0 /\ ep' = 0
    /\ hacky_store' = <<>> /\ hacky_indict' = NoneObj
    /\ epoch' = 0 /\ cycle' = 0 /\ t' = 0
    /\ UNCHANGED <<cli, done, trunc, memory, ep_steps, adversary_update, adv_updates,
                   last_select, results, losses, cyc, exported>>

\* ---------------------------------------------------------------- rollout
\* line 193 / line 257: the range(args.num_rollout_steps) loops are exhausted
RolloutLoopDone(i, a) == i = a.num_rollout_steps

\* variant of line 226 that leaves the train loop one iteration early
TrainLoopDone_Early(i, a) == i = a.number_of_train_steps - 1

\* line 226: the range(args.number_of_train_steps) loop is exhausted
TrainLoopDone(i, a) == i = a.number_of_train_steps

\* lines 193-222: one iteration of the rollout loop
RolloutStep ==
    /\ pc = "rollout"
    /\ ~RolloutLoopDone(t, args)
    /\ LET sel == select_action(total_steps + 1, state, ounoise, param_noise,
                                args.exploration_method, "rollout")
       IN \E r \in EnvStepResults(sim, args.env_name) :
          LET stored == IF hacky_indict # NoneObj
                        THEN DictAppend(hacky_store, ep,
                                 [step |-> hacky_indict.step,
                                  state |-> hacky_indict.state,
                                  done |-> hacky_indict.done,
                                  pr_action |-> sel.pr_mu,
                                  adv_action |-> sel.adv_mu])
                        ELSE hacky_store
              indict == [type |-> "rec", step |-> total_steps + 1,
                         state |-> state, done |-> r.done]
              rn == reset_noise(sel.a_noise, param_noise, noise_resets, perturbs)
          IN /\ last_select' = sel.call
             /\ total_steps' = total_steps + 1
             /\ memory' = store_transition(memory, args.replay_size)
             /\ hacky_store' = stored
             /\ ep_steps' = DictInc(ep_steps, ep)
             /\ done' = r.done /\ trunc' = r.trunc
             /\ IF r.done \/ r.trunc
                THEN /\ results' = [results EXCEPT !.train_rewards = @ + 1]
                     /\ ep' = ep + 1
                     /\ hacky_indict' = NoneObj
                     /\ sim' = EnvReset(r.sim)
                     /\ state' = 0
                     /\ ounoise' = rn.a_noise
                     /\ noise_resets' = rn.resets
                     /\ perturbs' = rn.perturbs
                ELSE /\ hacky_indict' = indict
                     /\ sim' = r.sim
                     /\ state' = r.obs
                     /\ ounoise' = sel.a_noise
                     /\ UNCHANGED <<results, ep, noise_resets, perturbs>>
    /\ t' = t + 1
    /\ cyc' = [(IF t = 0 THEN CycZero ELSE cyc) EXCEPT !.rollouts = @ + 1, !.stores = @ + 1]
    /\ UNCHANGED <<cli, args, pc, nb_epochs, epoch, cycle, eval_state, param_noise,
                   train_steps, adversary_update, adv_updates, losses,
                   base_dir, exported>>

\* ----------------------------------------------------------------- update
\* variant of line 225 with a non-strict comparison
UpdateGuard_AtLeast(len, batch_size) == len >= batch_size

\* line 225
UpdateGuard(len, batch_size) == len > batch_size

EnterUpdate ==
    /\ pc = "rollout"
    /\ RolloutLoopDone(t, args)
    /\ UpdateGuard(memory, args.batch_size)
    /\ pc' = "update" /\ t' = 0
    /\ UNCHANGED <<cli, args, nb_epochs, epoch, cycle, sim, state, eval_state, done, trunc,
                   ounoise, param_noise, perturbs, noise_resets, memory,
                   total_steps, train_steps, ep, hacky_store, hacky_indict,
                   ep_steps, adversary_update, adv_updates, last_select,
                   results, losses, cyc, base_dir, exported>>

SkipUpdate ==
    /\ pc = "rollout"
    /\ RolloutLoopDone(t, args)
    /\ ~UpdateGuard(memory, args.batch_size)
    /\ pc' = "eval" /\ t' = 0
    /\ UNCHANGED <<cli, args, nb_epochs, epoch, cycle, sim, state, eval_state, done, trunc,
                   ounoise, param_noise, perturbs, noise_resets, memory,
                   total_steps, train_steps, ep, hacky_store, hacky_indict,
                   ep_steps, adversary_update, adv_updates, last_select,
                   results, losses, cyc, base_dir, exported>>

\* variant of line 238 that ignores flip_ratio
AdversaryUpdate_NoFlip(ts, ratio, flip_ratio) == ts % ratio = 0

\* line 238
AdversaryUpdate(ts, ratio, flip_ratio) ==
    (ts % ratio = 0 /\ ~flip_ratio) \/ (ts % ratio # 0 /\ flip_ratio)

\* lines 227-247: one iteration of the train loop
UpdateStep ==
    /\ pc = "update"
    /\ ~TrainLoopDone(t, args)
    /\ IF train_steps % args.param_noise_interval = 0 /\ args.param_noise
       THEN /\ last_select' = select_action(0, 0, NoneObj, NoneObj, "mdp", "update").call
            /\ param_noise' = [param_noise EXCEPT !.adapts = @ + 1]
       ELSE UNCHANGED <<last_select, param_noise>>
    /\ adversary_update' = AdversaryUpdate(train_steps, args.ratio, args.flip_ratio)
    /\ adv_updates' = IF adversary_update' THEN adv_updates + 1 ELSE adv_updates
    /\ losses' = losses + 1
    /\ train_steps' = train_steps + 1
    /\ t' = t + 1
    /\ cyc' = [cyc EXCEPT !.updates = @ + 1]
    /\ UNCHANGED <<cli, args, pc, nb_epochs, epoch, cycle, sim, state, eval_state,
                   done, trunc, ounoise, perturbs, noise_resets, memory, total_steps, ep,
                   hacky_store, hacky_indict, ep_steps, results, base_dir, exported>>

\* lines 249-254
FinishUpdate ==
    /\ pc = "update"
    /\ TrainLoopDone(t, args)
    /\ results' = [results EXCEPT !.value_losses = @ + 1,
                                  !.policy_losses = @ + 1,
                                  !.adversary_losses = @ + 1]
    /\ losses' = 0
    /\ cyc' = [cyc EXCEPT !.loss_entries = @ + 1]
    /\ pc' = "eval" /\ t' = 0
    /\ UNCHANGED <<cli, args, nb_epochs, epoch, cycle, sim, state, eval_state, done, trunc,
                   ounoise, param_noise, perturbs, noise_resets, memory,
                   total_steps, train_steps, ep, hacky_store, hacky_indict,
                   ep_steps, adversary_update, adv_updates, last_select,
                   base_dir, exported>>

\* ------------------------------------------------------------- evaluation
\* variant of line 258 that selects the evaluation action as the rollout does
EvalSelect_AsRollout ==
    select_action(0, eval_state, ounoise, param_noise, args.exploration_method, "eval")

\* line 258
EvalSelect == select_action(0, eval_state, NoneObj, NoneObj, "mdp", "eval")

\* lines 257-269: one iteration of the evaluation loop
EvalStep ==
    /\ pc = "eval"
    /\ ~RolloutLoopDone(t, args)
    /\ LET sel == EvalSelect
       IN /\ last_select' = sel.call
          /\ ounoise' = IF sel.call.action_noise THEN sel.a_noise ELSE ounoise
          /\ \E r \in EnvStepResults(sim, args.env_name) :
             /\ done' = r.done /\ trunc' = r.trunc
             /\ IF r.done \/ r.trunc
               THEN /\ results' = [results EXCEPT !.eval_rewards = @ + 1]
                    /\ sim' = EnvReset(r.sim)
                    /\ eval_state' = 0
               ELSE /\ sim' = r.sim
                    /\ eval_state' = r.obs
                    /\ UNCHANGED results
    /\ t' = t + 1
    /\ cyc' = [cyc EXCEPT !.evals = @ + 1]
    /\ UNCHANGED <<cli, args, pc, nb_epochs, epoch, cycle, state,
                   param_noise, perturbs, noise_resets, memory, total_steps,
                   train_steps, ep, hacky_store, hacky_indict, ep_steps,
                   adversary_update, adv_updates, losses, base_dir, exported>>

\* lines 270-275, then the next iteration of the cycle / epoch loops
SaveAndDump ==
    /\ pc = "eval"
    /\ RolloutLoopDone(t, args)
    /\ LET last_cycle == (cycle + 1 = args.num_epochs_cycles)
           last_epoch == (epoch + 1 = nb_epochs)
       IN /\ cycle' = IF last_cycle THEN 0 ELSE cycle + 1
          /\ epoch' = IF last_cycle THEN epoch + 1 ELSE epoch
          /\ pc' = IF last_cycle /\ last_epoch THEN "export" ELSE "rollout"
          /\ cyc' = [cyc EXCEPT !.saves = @ + 1, !.dumps = @ + 1]
    /\ t' = 0
    /\ UNCHANGED <<cli, args, nb_epochs, sim, state, eval_state, done, trunc, ounoise,
                   param_noise, perturbs, noise_resets, memory, total_steps,
                   train_steps, ep, hacky_store, hacky_indict, ep_steps,
                   adversary_update, adv_updates, last_select, results, losses,
                   base_dir, exported>>

\* lines 281-287
ExportDataset ==
    /\ pc = "export"
    /\ exported' = TRUE
    /\ pc' = "done"
    /\ UNCHANGED <<cli, args, nb_epochs, epoch, cycle, t, sim, state, eval_state,
                   done, trunc,
                   ounoise, param_noise, perturbs, noise_resets, memory,
                   total_steps, train_steps, ep, hacky_store, hacky_indict,
                   ep_steps, adversary_update, adv_updates, last_select,
                   results, losses, cyc, base_dir>>

Next ==
    \/ Setup
    \/ RolloutStep
    \/ EnterUpdate
    \/ SkipUpdate
    \/ UpdateStep
    \/ FinishUpdate
    \/ EvalStep
    \/ SaveAndDump
    \/ ExportDataset

\* ------------------------------------------------------------- properties
Running == pc # "setup"

\* the ratio in force just before line 184 increments it
RatioBeforeIncrement == IF args.method = "pr_mdp" THEN 10 ELSE 1

\* C1: every update call selects the adversary iff train_steps mod (r+1) = 0
\* without flip_ratio, and iff train_steps mod (r+1) # 0 with flip_ratio, where
\* train_steps counts the update calls of the whole run and r is the ratio
\* before the driver's increment; so without flip the adversary has been
\* selected in exactly one call of every r+1 consecutive calls.
C1_UpdateCadence ==
    /\ [][train_steps' # train_steps =>
            /\ train_steps' = train_steps + 1
            /\ adversary_update' =
                 (IF args.flip_ratio
                  THEN train_steps % (RatioBeforeIncrement + 1) # 0
                  ELSE train_steps % (RatioBeforeIncrement + 1) = 0)]_vars
    /\ [](Running /\ ~args.flip_ratio =>
            adv_updates = (train_steps + RatioBeforeIncrement)
                              \div (RatioBeforeIncrement + 1))
    /\ [](Running /\ args.flip_ratio =>
            train_steps - adv_updates = (train_steps + RatioBeforeIncrement)
                                            \div (RatioBeforeIncrement + 1))

C1_Witness ==
    /\ ~args.flip_ratio
    /\ adversary_update
    /\ train_steps - 1 > args.number_of_train_steps
    /\ adv_updates >= 2

\* C2 (as stated): after the update phase of a cycle, no update call was made
\* and no loss entry appended exactly when len(memory) < batch_size; otherwise
\* number_of_train_steps update calls were made.
C2_SkipIffFewerThanBatch ==
    pc = "eval" =>
        IF memory < args.batch_size
        THEN cyc.updates = 0 /\ cyc.loss_entries = 0
        ELSE cyc.updates = args.number_of_train_steps /\ cyc.loss_entries = 1

\* C2 (amended): the update phase is skipped exactly when
\* len(memory) <= batch_size; when len(memory) > batch_size the cycle makes
\* number_of_train_steps update calls.
C2_SkipIffNotMoreThanBatch ==
    pc = "eval" =>
        IF memory <= args.batch_size
        THEN cyc.updates = 0 /\ cyc.loss_entries = 0
        ELSE cyc.updates = args.number_of_train_steps /\ cyc.loss_entries = 1

C2_Witness ==
    /\ pc = "eval"
    /\ memory = args.batch_size
    /\ cyc.updates = 0
    /\ cyc.rollouts = args.num_rollout_steps

\* C3: every evaluation-phase action selection uses mdp_type 'mdp' with no
\* action noise and no parameter noise, whatever method and exploration_method
\* are, and the OU process changes only in set-up and rollout steps.
C3_EvalIsNoiseFreeMdp ==
    /\ [](last_select.type = "call" /\ last_select.phase = "eval" =>
            /\ last_select.mdp_type = "mdp"
            /\ ~last_select.action_noise
            /\ ~last_select.param_noise)
    /\ [][ounoise' # ounoise => pc \in {"setup", "rollout"}]_vars

C3_Witness ==
    /\ last_select.type = "call" /\ last_select.phase = "eval"
    /\ args.method = "pr_mdp" /\ args.exploration_method = "nr_mdp"
    /\ ounoise # NoneObj /\ param_noise # NoneObj
    /\ ounoise.x_prev > 0

\* C4: at export, the number of records under episode index e equals the
\* number of rollout steps taken in episode e.
C4_OneRecordPerRolloutStep ==
    pc = "done" =>
        \A e \in DOMAIN ep_steps : Len(DictGet(hacky_store, e)) = ep_steps[e]

\* C5: a ratio given on the command line determines the update period and the
\* ratio in the run directory name, for every method.
C5_UserRatioDeterminesPeriod ==
    Running /\ cli.ratio # <<>> =>
        /\ args.ratio = cli.ratio[1] + 1
        /\ base_dir.ratio # <<>> => base_dir.ratio = cli.ratio

\* C6: at most one of the OU action-noise process and the parameter-noise
\* controller is instantiated.
C6_NoiseModesExclusive ==
    Running => ~(ounoise # NoneObj /\ param_noise # NoneObj)

\* C7: in every cycle the rollout steps (num_rollout_steps of them, each
\* storing one transition) come first, then 0 or number_of_train_steps update
\* calls, then num_rollout_steps evaluation steps, then the save and the dump.
C7_PhaseOrder ==
    /\ cyc.rollouts <= args.num_rollout_steps
    /\ cyc.stores = cyc.rollouts
    /\ cyc.updates <= args.number_of_train_steps
    /\ cyc.evals <= args.num_rollout_steps
    /\ cyc.updates > 0 => cyc.rollouts = args.num_rollout_steps
    /\ cyc.evals > 0 => /\ cyc.rollouts = args.num_rollout_steps
                        /\ cyc.updates \in {0, args.number_of_train_steps}
                        /\ cyc.loss_entries = (IF cyc.updates = 0 THEN 0 ELSE 1)
    /\ cyc.saves > 0 => /\ cyc.evals = args.num_rollout_steps
                        /\ cyc.saves = 1 /\ cyc.dumps = 1
    /\ pc = "update" => cyc.rollouts = args.num_rollout_steps /\ cyc.evals = 0
    /\ pc = "eval" => cyc.rollouts = args.num_rollout_steps /\ cyc.saves = 0

C7_Witness ==
    /\ pc = "rollout" /\ t = 0 /\ cycle = 1
    /\ cyc.saves = 1
    /\ cyc.updates = args.number_of_train_steps
    /\ cyc.evals = args.num_rollout_steps

\* C8: the exploration noise is reset once before the first rollout step and
\* after every rollout step that reports done or truncated, together with an
\* environment reset and an episode-index increment, and at no other time.
C8_NoiseResetAtEpisodeBoundary ==
    /\ [](Running => noise_resets = ep + 1)
    /\ [](Running /\ ounoise # NoneObj => ounoise.x_prev = CountGet(ep_steps, ep))
    /\ [][total_steps' # total_steps =>
            IF done' \/ trunc'
            THEN /\ noise_resets' = noise_resets + 1
                 /\ ep' = ep + 1
                 /\ sim'.elapsed = 0
                 /\ ounoise'.x_prev = 0
            ELSE /\ noise_resets' = noise_resets
                 /\ ep' = ep]_vars
    /\ [][noise_resets' # noise_resets =>
            pc = "setup" \/ (pc = "rollout" /\ total_steps' # total_steps)]_vars

C8_Witness ==
    /\ pc = "rollout"
    /\ ep >= 1 /\ noise_resets = ep + 1
    /\ ounoise.x_prev > t
    /\ train_steps > 0

\* C9: the protagonist and adversary mean actions stored in a record are the
\* ones select_action returned for that record's own rollout step and state.
C9_RecordActionsMatchState ==
    \A e \in DOMAIN hacky_store :
        \A i \in 1..Len(hacky_store[e]) :
            LET rec == hacky_store[e][i]
            IN /\ rec.pr_action.step = rec.step
               /\ rec.pr_action.state = rec.state
               /\ rec.adv_action.step = rec.step
               /\ rec.adv_action.state = rec.state

\* C10: an evaluation step or evaluation reset leaves the training
\* environment as it was.
C10_EvalLeavesTrainingEnv ==
    [][pc = "eval" => sim' = sim]_vars

Spec == Init /\ [][Next]_vars
====
